---- MODULE Spec2Model ----
(***************************************************************************)
(* The inventory store (src/src/inventory.ts, InventoryManager) and the    *)
(* pickup field (src/unnamed/part_000, ItemPickupManager) of the dungeon   *)
(* crawler, as two state machines over one set of variables:               *)
(*   Spec        the inventory: addItem and isFull                         *)
(*   SpecPickup  the pickup field: spawn, spawnMany, update and clear over *)
(*               an inventory                                              *)
(*   SpecIcons   the pickup field with the icon loader's two callbacks     *)
(*   SpecUI      the inventory with few quantities and the UI toggled      *)
(* The slots keep their JavaScript indices (slot 0 is the first slot).     *)
(***************************************************************************)
EXTENDS Integers, Sequences, FiniteSets, TLC

VARIABLES
    items,             \* InventoryManager.items: slot index -> item or null
    isVisible,         \* InventoryManager.isVisible
    display,           \* InventoryManager.container.style.display
    slots,             \* the .inv-slot children render() leaves in the container
    pickups,           \* ItemPickupManager.pickups
    scene,             \* the sprites the THREE.Scene holds
    iconTextureCache,  \* ItemPickupManager.iconTextureCache
    loading,           \* the TextureLoader's request for each icon
    sprites,           \* how many THREE.Sprite objects were constructed
    calls,             \* history: the addItem calls made, each with its result
    visTrail,          \* history: isVisible before each of the latest toggles in a row
    loadsStarted,      \* history: how many loader.load calls were made per item id
    accepts,           \* history: the accept calls the latest update() made
    last               \* history: the latest inventory call and what it returned

vars == <<items, isVisible, display, slots, pickups, scene, iconTextureCache,
          loading, sprites, calls, visTrail, loadsStarted, accepts, last>>

inventoryVars == <<items, isVisible, display, slots, calls, visTrail, last>>
pickupVars ==
    <<pickups, scene, iconTextureCache, loading, sprites, loadsStarted, accepts>>

---------------------------------------------------------------------------
(* Bounds of the model.                                                    *)

\* addItem calls in one behaviour of Spec
MaxAdds == 3

\* markers created in one behaviour of SpecPickup
MaxSpawns == 2

---------------------------------------------------------------------------
(* Item catalog and slots.                                                 *)

capacity == 10

ItemType == {"gold", "potion", "key"}

ITEM_DEFINITIONS ==
    [gold   |-> [type |-> "gold",   maxStack |-> 99],
     potion |-> [type |-> "potion", maxStack |-> 5],
     key    |-> [type |-> "key",    maxStack |-> 1]]

\* The catalog the pickup field reads: the item ids of the pickup layout,
\* with the max stack sizes the inventory gives a potion and a key.
ITEM_DB ==
    [potion_health |-> [id |-> "potion_health", maxStack |-> 5],
     key_blue      |-> [id |-> "key_blue",      maxStack |-> 1],
     axe_basic     |-> [id |-> "axe_basic",     maxStack |-> 1]]

\* An empty slot (null in the array).
null == [type |-> "null", count |-> 0, maxStack |-> 0]

Min(a, b) == IF a <= b THEN a ELSE b

\* this.items.length
Length(its) == Cardinality(DOMAIN its)

\* new Array(this.capacity).fill(null)
EmptyItems == [i \in 0 .. capacity - 1 |-> null]

---------------------------------------------------------------------------
(* JavaScript numbers that need not be integers: a quantity handed to      *)
(* spawn() is NaN or a multiple of one half, held as the number of halves. *)

NaN == [nan |-> TRUE, v |-> 0]

Number(v) == [nan |-> FALSE, v |-> v]

\* Math.floor of a number held in halves; the result is held in units.
MathFloor(h) == IF h.nan THEN NaN ELSE Number(h.v \div 2)

\* Math.max: NaN if either argument is NaN.
MathMax(a, b) ==
    IF a.nan \/ b.nan THEN NaN ELSE IF a.v >= b.v THEN a ELSE b

---------------------------------------------------------------------------
(* InventoryManager.                                                       *)

\* render(): one cell per slot; the count is shown for stackable items only.
render(its) ==
    [i \in DOMAIN its |->
        IF its[i] = null
        THEN [icon |-> "", count |-> "", borderColor |-> "#666"]
        ELSE [icon |-> CASE its[i].type = "gold" -> "gold"
                         [] its[i].type = "potion" -> "red"
                         [] its[i].type = "key" -> "silver"
                         [] OTHER -> "",
              count |-> IF its[i].maxStack > 1 THEN ToString(its[i].count) ELSE "",
              borderColor |-> IF its[i].count >= its[i].maxStack
                              THEN "#aa0" ELSE "#666"]]

\* StackPass without "remaining -= add": what was stacked is placed again.
RECURSIVE StackPassKeepsRemaining(_, _, _, _)
StackPassKeepsRemaining(its, type, remaining, i) ==
    IF i >= Length(its)
    THEN [items |-> its, remaining |-> remaining]
    ELSE LET item == its[i] IN
         IF item # null /\ item.type = type /\ item.count < item.maxStack
         THEN LET add == Min(item.maxStack - item.count, remaining)
              IN  StackPassKeepsRemaining([its EXCEPT ![i].count = item.count + add],
                                          type, remaining, i + 1)
         ELSE StackPassKeepsRemaining(its, type, remaining, i + 1)

\* addItem, first loop, from index i on: stack on the slots of this type.
RECURSIVE StackPass(_, _, _, _)
StackPass(its, type, remaining, i) ==
    IF i >= Length(its)
    THEN [items |-> its, remaining |-> remaining]
    ELSE LET item == its[i] IN
         IF item # null /\ item.type = type /\ item.count < item.maxStack
         THEN LET space == item.maxStack - item.count
                  add == Min(space, remaining)
                  stacked == [its EXCEPT ![i].count = item.count + add]
              IN  IF remaining - add = 0
                  THEN [items |-> stacked, remaining |-> 0]
                  ELSE StackPass(stacked, type, remaining - add, i + 1)
         ELSE StackPass(its, type, remaining, i + 1)

\* EmptyPass without Math.min(def.maxStack, remaining): the first empty slot
\* takes everything.
RECURSIVE EmptyPassUncapped(_, _, _, _)
EmptyPassUncapped(its, def, remaining, i) ==
    IF i >= Length(its)
    THEN [items |-> its, remaining |-> remaining]
    ELSE IF its[i] = null
         THEN [items |-> [its EXCEPT ![i] =
                            [type |-> def.type, count |-> remaining,
                             maxStack |-> def.maxStack]],
               remaining |-> 0]
         ELSE EmptyPassUncapped(its, def, remaining, i + 1)

\* EmptyPass putting one unit in each empty slot.
RECURSIVE EmptyPassOnePerSlot(_, _, _, _)
EmptyPassOnePerSlot(its, def, remaining, i) ==
    IF i >= Length(its)
    THEN [items |-> its, remaining |-> remaining]
    ELSE IF its[i] = null
         THEN LET filled == [its EXCEPT ![i] =
                                [type |-> def.type, count |-> 1,
                                 maxStack |-> def.maxStack]]
              IN  IF remaining - 1 = 0
                  THEN [items |-> filled, remaining |-> 0]
                  ELSE EmptyPassOnePerSlot(filled, def, remaining - 1, i + 1)
         ELSE EmptyPassOnePerSlot(its, def, remaining, i + 1)

\* addItem, second loop, from index i on: fill the empty slots.
RECURSIVE EmptyPass(_, _, _, _)
EmptyPass(its, def, remaining, i) ==
    IF i >= Length(its)
    THEN [items |-> its, remaining |-> remaining]
    ELSE IF its[i] = null
         THEN LET add == Min(def.maxStack, remaining)
                  filled == [its EXCEPT ![i] =
                                [type |-> def.type, count |-> add,
                                 maxStack |-> def.maxStack]]
              IN  IF remaining - add = 0
                  THEN [items |-> filled, remaining |-> 0]
                  ELSE EmptyPass(filled, def, remaining - add, i + 1)
         ELSE EmptyPass(its, def, remaining, i + 1)

\* addItem with the two loops in the other order: empty slots first.
addItemEmptyFirst(its, def, count) ==
    LET placed == EmptyPass(its, def, count, 0)
        stacked == IF placed.remaining > 0
                   THEN StackPass(placed.items, def.type, placed.remaining, 0)
                   ELSE placed
    IN  [items |-> stacked.items, ret |-> stacked.remaining = 0]

\* addItem's body for the definition def of the item type: the items it
\* leaves and the value it returns.
addItem(its, def, count) ==
    LET stacked == StackPass(its, def.type, count, 0)
        placed == IF stacked.remaining > 0
                  THEN EmptyPass(stacked.items, def, stacked.remaining, 0)
                  ELSE stacked
    IN  [items |-> placed.items, ret |-> placed.remaining = 0]

\* isFull with some() in place of every().
isFullSome(its) ==
    \E i \in DOMAIN its : its[i] # null /\ its[i].count >= its[i].maxStack

isFull(its) ==
    \A i \in DOMAIN its : its[i] # null /\ its[i].count >= its[i].maxStack

Called(op, ret) == [op |-> op, ret |-> ret]

\* The quantities an addItem call is made with, per item type.
Quantities(type) ==
    LET m == ITEM_DEFINITIONS[type].maxStack IN
    {1, 2, 3, m + 1, capacity * m - 1, capacity * m}

AddItem(type, count) ==
    /\ Len(calls) < MaxAdds
    /\ LET r == addItem(items, ITEM_DEFINITIONS[type], count) IN
        /\ items' = r.items
        /\ slots' = render(r.items)
        /\ calls' = Append(calls, [type |-> type, count |-> count,
                                   ok |-> r.ret, before |-> items])
        /\ last' = Called("addItem", r.ret)
    /\ visTrail' = <<>>
    /\ UNCHANGED <<isVisible, display>>
    /\ UNCHANGED pickupVars

IsFull ==
    /\ last' = Called("isFull", isFull(items))
    /\ visTrail' = <<>>
    /\ UNCHANGED <<items, isVisible, display, slots, calls>>
    /\ UNCHANGED pickupVars

\* toggleVisibility that only ever shows the UI.
ToggleVisibilityShowOnly ==
    /\ isVisible' = TRUE
    /\ display' = "grid"
    /\ visTrail' = IF Len(visTrail) < 2
                   THEN Append(visTrail, isVisible)
                   ELSE <<visTrail[2], isVisible>>
    /\ last' = Called("toggleVisibility", FALSE)
    /\ UNCHANGED <<items, slots, calls>>
    /\ UNCHANGED pickupVars

ToggleVisibility ==
    /\ isVisible' = ~isVisible
    /\ display' = IF isVisible' THEN "grid" ELSE "none"
    /\ visTrail' = IF Len(visTrail) < 2
                   THEN Append(visTrail, isVisible)
                   ELSE <<visTrail[2], isVisible>>
    /\ last' = Called("toggleVisibility", FALSE)
    /\ UNCHANGED <<items, slots, calls>>
    /\ UNCHANGED pickupVars

\* The constructor: an empty inventory, and createUI() with the UI hidden.
Init ==
    /\ items = EmptyItems
    /\ isVisible = FALSE
    /\ display = "none"
    /\ slots = render(EmptyItems)
    /\ calls = <<>>
    /\ visTrail = <<>>
    /\ pickups = <<>>
    /\ scene = {}
    /\ iconTextureCache = [id \in DOMAIN ITEM_DB |-> "none"]
    /\ loading = [id \in DOMAIN ITEM_DB |-> "idle"]
    /\ sprites = 0
    /\ loadsStarted = [id \in DOMAIN ITEM_DB |-> 0]
    /\ accepts = <<>>
    /\ last = Called("constructor", FALSE)

Next ==
    \/ \E type \in ItemType : \E count \in Quantities(type) : AddItem(type, count)
    \/ IsFull

Spec == Init /\ [][Next]_vars

\* The inventory with its UI toggled between the calls.
UIQuantities(type) == {1, ITEM_DEFINITIONS[type].maxStack + 1}

NextUI ==
    \/ \E type \in ItemType : \E count \in UIQuantities(type) : AddItem(type, count)
    \/ IsFull
    \/ ToggleVisibility

SpecUI == Init /\ [][NextUI]_vars

---------------------------------------------------------------------------
(* ItemPickupManager. Positions are in quarters of a world unit. The bob   *)
(* and pulse writes of update() (animTime, sprite.position.y, sprite.scale *)
(* and material.opacity) are read by no other statement and are left out.  *)

\* pickupRadius = 0.75, in quarters of a world unit
pickupRadius == 3

\* The inventory's accept call for an item id: an unknown id or a quantity
\* that is not a number places nothing and fails; otherwise the two passes of
\* addItem run for the id's template.
tryAddById(its, itemId, quantity) ==
    IF itemId \notin DOMAIN ITEM_DB \/ quantity.nan
    THEN [items |-> its, ret |-> FALSE]
    ELSE addItem(its, [type |-> itemId, maxStack |-> ITEM_DB[itemId].maxStack],
                 quantity.v)

\* The fields of the manager that spawn() reads and writes.
Manager ==
    [pickups |-> pickups, scene |-> scene, iconTextureCache |-> iconTextureCache,
     loading |-> loading, loadsStarted |-> loadsStarted, sprites |-> sprites]

\* The cached texture, or a placeholder that is cached while the load that
\* is started here is under way.
getOrLoadIconTexture(m, tpl) ==
    IF m.iconTextureCache[tpl.id] # "none"
    THEN [manager |-> m, texture |-> m.iconTextureCache[tpl.id]]
    ELSE [manager |-> [m EXCEPT !.iconTextureCache[tpl.id] = "placeholder",
                                !.loading[tpl.id] = "pending",
                                !.loadsStarted[tpl.id] = @ + 1],
          texture |-> "placeholder"]

spawn(m, s) ==
    IF s.itemId \notin DOMAIN ITEM_DB
    THEN m
    ELSE LET got == getOrLoadIconTexture(m, ITEM_DB[s.itemId])
             sprite == m.sprites + 1
             pickup == [sprite |-> sprite,
                        itemId |-> s.itemId,
                        quantity |-> MathMax(Number(1), MathFloor(s.quantity)),
                        x |-> s.x,
                        z |-> s.z,
                        map |-> got.texture]
         IN  [got.manager EXCEPT !.sprites = sprite,
                                 !.pickups = Append(@, pickup),
                                 !.scene = @ \cup {sprite}]

RECURSIVE spawnMany(_, _)
spawnMany(m, spawns) ==
    IF spawns = <<>> THEN m
    ELSE spawnMany(spawn(m, Head(spawns)), Tail(spawns))

\* this.pickups.splice(i, 1), on a sequence indexed from 1
Splice(seq, i) == SubSeq(seq, 1, i - 1) \o SubSeq(seq, i + 1, Len(seq))

\* The record of one accept call made by update().
Accept(p, r, its) ==
    [sprite |-> p.sprite, itemId |-> p.itemId, quantity |-> p.quantity,
     ok |-> r.ret, before |-> its]

\* update()'s loop that removes every marker in reach, accepted or not.
RECURSIVE updateFromDropsRejected(_, _, _)
updateFromDropsRejected(st, playerPos, i) ==
    IF i < 1
    THEN st
    ELSE LET p == st.pickups[i]
             dx == playerPos[1] - p.x
             dz == playerPos[3] - p.z
         IN  IF dx * dx + dz * dz < pickupRadius * pickupRadius
             THEN LET r == tryAddById(st.items, p.itemId, p.quantity)
                  IN  updateFromDropsRejected(
                          [items |-> r.items,
                           log |-> Append(st.log, Accept(p, r, st.items)),
                           scene |-> st.scene \ {p.sprite},
                           pickups |-> Splice(st.pickups, i)],
                          playerPos, i - 1)
             ELSE updateFromDropsRejected(st, playerPos, i - 1)

\* update()'s loop from index i down: a marker in reach is offered to the
\* inventory and leaves the scene and the field if it is accepted.
RECURSIVE updateFrom(_, _, _)
updateFrom(st, playerPos, i) ==
    IF i < 1
    THEN st
    ELSE LET p == st.pickups[i]
             dx == playerPos[1] - p.x
             dz == playerPos[3] - p.z
         IN  IF dx * dx + dz * dz < pickupRadius * pickupRadius
             THEN LET r == tryAddById(st.items, p.itemId, p.quantity)
                      tried == [st EXCEPT !.items = r.items,
                                          !.log = Append(@, Accept(p, r, st.items))]
                  IN  IF r.ret
                      THEN updateFrom([tried EXCEPT !.scene = @ \ {p.sprite},
                                                    !.pickups = Splice(@, i)],
                                      playerPos, i - 1)
                      ELSE updateFrom(tried, playerPos, i - 1)
             ELSE updateFrom(st, playerPos, i - 1)

\* What spawn() is called with: an item id, a quantity in halves (-0.5 and
\* 2.5) or NaN, and a position; one entry names an item the catalog lacks.
SpawnQuantities == {NaN, Number(-1), Number(5)}

SpawnInputs ==
    [itemId : {"potion_health", "key_blue"}, quantity : SpawnQuantities,
     x : {0, 4}, z : {0}]
    \cup {[itemId |-> "unknown_item", quantity |-> Number(5), x |-> 0, z |-> 0]}

\* What spawnMany() is called with: two entries, the first of any item.
SpawnLists ==
    {<<a, [itemId |-> "key_blue", quantity |-> Number(-1), x |-> 4, z |-> 0]>> :
        a \in {s \in SpawnInputs : s.x = 0 /\ s.quantity = Number(5)}}

\* Where the player stands in a frame, <<x, y, z>>.
PlayerPositions == {<<0, 0, 0>>, <<2, 8, 2>>, <<3, 0, 0>>}

SetManager(m) ==
    /\ pickups' = m.pickups
    /\ scene' = m.scene
    /\ iconTextureCache' = m.iconTextureCache
    /\ loading' = m.loading
    /\ loadsStarted' = m.loadsStarted
    /\ sprites' = m.sprites

Spawn(s) ==
    /\ sprites < MaxSpawns
    /\ SetManager(spawn(Manager, s))
    /\ accepts' = <<>>
    /\ UNCHANGED inventoryVars

SpawnMany(spawns) ==
    /\ sprites + Len(spawns) <= MaxSpawns
    /\ SetManager(spawnMany(Manager, spawns))
    /\ accepts' = <<>>
    /\ UNCHANGED inventoryVars

Update(playerPos) ==
    /\ LET st == updateFrom([items |-> items, log |-> <<>>, scene |-> scene,
                             pickups |-> pickups],
                            playerPos, Len(pickups))
       IN  /\ pickups' = st.pickups
           /\ scene' = st.scene
           /\ items' = st.items
           /\ slots' = render(st.items)
           /\ accepts' = st.log
    /\ UNCHANGED <<isVisible, display, calls, visTrail, last>>
    /\ UNCHANGED <<iconTextureCache, loading, sprites, loadsStarted>>

getActiveCount(ps) == Len(ps)

Clear ==
    /\ scene' = scene \ {pickups[i].sprite : i \in 1 .. Len(pickups)}
    /\ pickups' = <<>>
    /\ accepts' = <<>>
    /\ UNCHANGED inventoryVars
    /\ UNCHANGED <<iconTextureCache, loading, sprites, loadsStarted>>

\* The loader's onLoad callback that only replaces the cached texture.
IconLoadedCacheOnly(id) ==
    /\ loading[id] = "pending"
    /\ loading' = [loading EXCEPT ![id] = "loaded"]
    /\ iconTextureCache' = [iconTextureCache EXCEPT ![id] = "icon"]
    /\ accepts' = <<>>
    /\ UNCHANGED inventoryVars
    /\ UNCHANGED <<pickups, scene, sprites, loadsStarted>>

\* The loader's onLoad callback for the icon of item id.
IconLoaded(id) ==
    /\ loading[id] = "pending"
    /\ loading' = [loading EXCEPT ![id] = "loaded"]
    /\ iconTextureCache' = [iconTextureCache EXCEPT ![id] = "icon"]
    /\ pickups' = [i \in 1 .. Len(pickups) |->
                      IF pickups[i].itemId # id THEN pickups[i]
                      ELSE [pickups[i] EXCEPT !.map = "icon"]]
    /\ accepts' = <<>>
    /\ UNCHANGED inventoryVars
    /\ UNCHANGED <<scene, sprites, loadsStarted>>

\* The loader's onError callback: the placeholder is kept.
IconFailed(id) ==
    /\ loading[id] = "pending"
    /\ loading' = [loading EXCEPT ![id] = "error"]
    /\ accepts' = <<>>
    /\ UNCHANGED inventoryVars
    /\ UNCHANGED <<pickups, scene, iconTextureCache, sprites, loadsStarted>>

\* The inventories the pickup field starts over: what accept calls leave.
RECURSIVE Preloaded(_, _)
Preloaded(its, accepted) ==
    IF accepted = <<>> THEN its
    ELSE Preloaded(tryAddById(its, Head(accepted)[1], Number(Head(accepted)[2])).items,
                   Tail(accepted))

PreloadedInventories ==
    {Preloaded(EmptyItems, accepted) :
        accepted \in {<<>>,
                      <<<<"key_blue", 8>>, <<"potion_health", 4>>>>,
                      <<<<"key_blue", 9>>, <<"potion_health", 4>>>>}}

InitPickup ==
    /\ items \in PreloadedInventories
    /\ isVisible = FALSE
    /\ display = "none"
    /\ slots = render(items)
    /\ calls = <<>>
    /\ visTrail = <<>>
    /\ pickups = <<>>
    /\ scene = {}
    /\ iconTextureCache = [id \in DOMAIN ITEM_DB |-> "none"]
    /\ loading = [id \in DOMAIN ITEM_DB |-> "idle"]
    /\ sprites = 0
    /\ loadsStarted = [id \in DOMAIN ITEM_DB |-> 0]
    /\ accepts = <<>>
    /\ last = Called("constructor", FALSE)

NextPickup ==
    \/ \E s \in SpawnInputs : Spawn(s)
    \/ \E spawns \in SpawnLists : SpawnMany(spawns)
    \/ \E playerPos \in PlayerPositions : Update(playerPos)
    \/ Clear

SpecPickup == InitPickup /\ [][NextPickup]_vars

\* The pickup field with the icon loader's callbacks arriving at any time.
IconSpawnInputs == {s \in SpawnInputs : s.quantity = Number(5)}

NextIcons ==
    \/ \E s \in IconSpawnInputs : Spawn(s)
    \/ \E spawns \in SpawnLists : SpawnMany(spawns)
    \/ \E playerPos \in PlayerPositions : Update(playerPos)
    \/ Clear
    \/ \E id \in DOMAIN ITEM_DB : IconLoaded(id)
    \/ \E id \in DOMAIN ITEM_DB : IconFailed(id)

SpecIcons == InitPickup /\ [][NextIcons]_vars

---------------------------------------------------------------------------
(* What the claims speak of.                                               *)

\* The catalog's max stack size of an item type or item id.
MaxStackOf(type) ==
    IF type \in ItemType THEN ITEM_DEFINITIONS[type].maxStack
    ELSE ITEM_DB[type].maxStack

\* The total held count of an item type.
Held(its, type) ==
    LET h[n \in 0 .. Length(its)] ==
            IF n = 0 THEN 0
            ELSE h[n - 1] + (IF its[n - 1].type = type THEN its[n - 1].count ELSE 0)
    IN  h[Length(its)]

\* The room left for an item type: the slack of its slots below max stack and
\* a full stack for every empty slot.
SlackUpTo(its, type, n) ==
    LET s[k \in 0 .. n] ==
            IF k = 0 THEN 0
            ELSE s[k - 1] + (IF its[k - 1].type = type
                             THEN MaxStackOf(type) - its[k - 1].count ELSE 0)
    IN  s[n]

EmptyUpTo(its, n) == Cardinality({j \in 0 .. n - 1 : its[j] = null})

Room(its, type) ==
    SlackUpTo(its, type, Length(its)) + EmptyUpTo(its, Length(its)) * MaxStackOf(type)

\* The items right after the k-th addItem call.
After(k) == IF k = Len(calls) THEN items ELSE calls[k + 1].before

\* The latest addItem call, if one was made: every call is the latest one in
\* the states that follow it.
Latest == {k \in {Len(calls)} : k >= 1}

\* The sum of the quantities requested for an item type so far.
Requested(type) ==
    LET r[k \in 0 .. Len(calls)] ==
            IF k = 0 THEN 0
            ELSE r[k - 1] + (IF calls[k].type = type THEN calls[k].count ELSE 0)
    IN  r[Len(calls)]

Max(a, b) == IF a >= b THEN a ELSE b

\* C1: every addItem(type, q) raises the held count of the type by exactly
\* min(q, room), leaves the slots of the other types as they were and returns
\* true iff q <= room; so no type is ever held beyond what was requested of it.
C1_AddPlacesMinOfQuantityAndRoom ==
    /\ \A k \in Latest :
        LET c == calls[k]
            room == Room(c.before, c.type)
        IN  /\ Held(After(k), c.type) = Held(c.before, c.type) + Min(c.count, room)
            /\ \A i \in DOMAIN c.before :
                  (c.before[i] # null /\ c.before[i].type # c.type)
                      => After(k)[i] = c.before[i]
            /\ c.ok <=> (c.count <= room)
    /\ \A type \in ItemType : Held(items, type) <= Requested(type)

\* A call that fits only in part, over slots of another type.
C1_Witness ==
    \E k \in 1 .. Len(calls) :
        /\ ~calls[k].ok
        /\ Room(calls[k].before, calls[k].type) > 0
        /\ Held(After(k), calls[k].type) > Held(calls[k].before, calls[k].type)
        /\ \E i \in DOMAIN items :
              calls[k].before[i] # null /\ calls[k].before[i].type # calls[k].type

\* C2: the inventory always has exactly capacity slots, and every occupied
\* slot holds between 1 and the max stack size of its item type.
C2_SlotsWithinStackBounds ==
    /\ Length(items) = capacity
    /\ DOMAIN items = 0 .. capacity - 1
    /\ \A i \in DOMAIN items :
          items[i] # null =>
              /\ items[i].type \in ItemType
              /\ 1 <= items[i].count
              /\ items[i].count <= MaxStackOf(items[i].type)

\* An add that did not fit, leaving a slot at max stack.
C2_Witness ==
    /\ Len(calls) >= 2
    /\ ~calls[Len(calls)].ok
    /\ \E i \in DOMAIN items :
          items[i] # null /\ items[i].count = MaxStackOf(items[i].type)
    /\ \E i \in DOMAIN items :
          items[i] # null /\ items[i].count < MaxStackOf(items[i].type)

\* What the two passes leave in slot i after addItem(type, q) on items b:
\* the slots of the type take the quantity in index order up to max stack,
\* and what is left after them goes to the empty slots in index order.
TwoPass(b, type, q, i) ==
    LET m == MaxStackOf(type)
        left == q - Min(q, SlackUpTo(b, type, Length(b)))
        share == Min(m, Max(0, left - EmptyUpTo(b, i) * m))
    IN  IF b[i] = null
        THEN IF share = 0 THEN null
             ELSE [type |-> type, count |-> share, maxStack |-> m]
        ELSE IF b[i].type = type
             THEN [b[i] EXCEPT !.count =
                      @ + Min(m - @, Max(0, q - SlackUpTo(b, type, i)))]
             ELSE b[i]

\* C3: addItem tops up the slots of the type in index order first and puts
\* only what is left into empty slots, in index order, a max stack each; no
\* empty slot is used while a slot of the type has room; and potion 1, 2, 3
\* from the empty inventory all succeed and end with slot 0 = 5, slot 1 = 1.
C3_TwoPassPlacement ==
    /\ \A k \in Latest :
        LET c == calls[k] IN
        /\ \A i \in DOMAIN c.before :
              After(k)[i] = TwoPass(c.before, c.type, c.count, i)
        /\ (\E i \in DOMAIN c.before : c.before[i] = null /\ After(k)[i] # null)
              => \A j \in DOMAIN c.before :
                    After(k)[j].type = c.type
                        => After(k)[j].count = MaxStackOf(c.type)
                           \/ c.before[j] = null
    /\ ( /\ Len(calls) >= 3
         /\ \A k \in 1 .. 3 : calls[k].type = "potion" /\ calls[k].count = k )
       => /\ \A k \in 1 .. 3 : calls[k].ok
          /\ After(3) = [i \in 0 .. capacity - 1 |->
                            IF i = 0 THEN [type |-> "potion", count |-> 5, maxStack |-> 5]
                            ELSE IF i = 1 THEN [type |-> "potion", count |-> 1, maxStack |-> 5]
                            ELSE null]

\* The three potion calls were made, the third one spilling into slot 1.
C3_Witness ==
    /\ Len(calls) = 3
    /\ \A k \in 1 .. 3 : calls[k].type = "potion" /\ calls[k].count = k
    /\ items[1] # null

\* Every slot occupied and at the max stack size of its item type.
AllAtMaxStack(its) ==
    \A i \in DOMAIN its : its[i] # null /\ its[i].count = MaxStackOf(its[i].type)

\* The first n calls are all of one type and total capacity x max stack of it.
FillsWith(n, type) ==
    /\ n >= 1
    /\ \A k \in 1 .. n : calls[k].type = type
    /\ LET r[k \in 0 .. n] == IF k = 0 THEN 0 ELSE r[k - 1] + calls[k].count
       IN  r[n] = capacity * MaxStackOf(type)

\* C4: isFull() is true exactly when every slot is occupied and at max stack;
\* it is true after adds of one type totalling capacity x max stack; and an
\* add made when it is true returns false and changes no slot.
C4_FullInventoryRejectsAdds ==
    /\ isFull(items) <=> AllAtMaxStack(items)
    /\ last.op = "isFull" => (last.ret <=> AllAtMaxStack(items))
    /\ \A n \in Latest : \A type \in ItemType :
          FillsWith(n, type) => isFull(After(n))
    /\ \A k \in Latest :
          isFull(calls[k].before) => ~calls[k].ok /\ After(k) = calls[k].before

\* Two calls of one type filled the inventory, the next add was turned down
\* and isFull() then returned true.
C4_Witness ==
    /\ Len(calls) = 3
    /\ \E type \in ItemType : FillsWith(2, type)
    /\ isFull(calls[3].before)
    /\ last.op = "isFull" /\ last.ret

\* C10: no item type ever has two slots below max stack, and an add never
\* empties an occupied slot, changes its type or lowers its count.
C10_OnePartialStackPerType ==
    /\ \A type \in ItemType :
          Cardinality({i \in DOMAIN items :
                          items[i].type = type /\ items[i].count < MaxStackOf(type)}) <= 1
    /\ \A k \in Latest : \A i \in DOMAIN calls[k].before :
          calls[k].before[i] # null =>
              /\ After(k)[i] # null
              /\ After(k)[i].type = calls[k].before[i].type
              /\ After(k)[i].count >= calls[k].before[i].count

\* A type spread over several slots after a call that stacked on a partial one.
C10_Witness ==
    \E k \in 1 .. Len(calls) : \E i, j \in DOMAIN items :
        /\ i < j
        /\ calls[k].before[i].type = calls[k].type
        /\ calls[k].before[i].count < After(k)[i].count
        /\ calls[k].before[j] = null
        /\ After(k)[j].type = calls[k].type
        /\ After(k)[j].count < MaxStackOf(calls[k].type)

\* C9: the UI is Hidden at first and only ever Hidden or Shown;
\* toggleVisibility flips it and leaves the slots alone, two toggles in a row
\* restore it, and no other call changes it.
C9_VisibilityTogglesOnly ==
    /\ [](/\ isVisible \in BOOLEAN
          /\ display \in {"none", "grid"}
          /\ display = "grid" <=> isVisible
          /\ last.op = "constructor" => ~isVisible
          /\ Len(visTrail) = 2 => isVisible = visTrail[1])
    /\ [][/\ last'.op = "toggleVisibility"
                => /\ isVisible' = ~isVisible
                   /\ items' = items
                   /\ slots' = slots
          /\ last'.op # "toggleVisibility"
                => isVisible' = isVisible /\ display' = display]_vars

\* Shown, after an add, then two toggles in a row on a non-empty inventory.
C9_Witness ==
    /\ Len(visTrail) = 2
    /\ Len(calls) >= 1
    /\ last.op = "toggleVisibility"

---------------------------------------------------------------------------
(* The pickup field's claims.                                              *)

\* The total quantity of the live markers of an item id (a quantity that is
\* not a number counts for nothing).
MarkerTotal(ps, id) ==
    LET t[n \in 0 .. Len(ps)] ==
            IF n = 0 THEN 0
            ELSE t[n - 1] + (IF ps[n].itemId = id /\ ~ps[n].quantity.nan
                             THEN ps[n].quantity.v ELSE 0)
    IN  t[Len(ps)]

\* The n-th accept call of the update() just made left these items.
AcceptedInto(n) == IF n = Len(accepts') THEN items' ELSE accepts'[n + 1].before

\* Whether the marker with this sprite is in the field.
Live(ps, sprite) == \E j \in 1 .. Len(ps) : ps[j].sprite = sprite

\* The squared planar (x, z) distance between a marker and the player,
\* <<x, y, z>>, in sixteenths of a squared world unit.
PlanarDistanceSquared(p, playerPos) ==
    (playerPos[1] - p.x) * (playerPos[1] - p.x)
        + (playerPos[3] - p.z) * (playerPos[3] - p.z)

\* C5: an accept call of update() that returns false leaves the marker in the
\* field and every inventory slot as it was; so no frame raises, for any item,
\* the total held plus the total quantity of its live markers.
C5_CaptureIsAllOrNothing ==
    [][\A playerPos \in PlayerPositions :
          Update(playerPos) =>
              /\ \A n \in 1 .. Len(accepts') :
                    ~accepts'[n].ok =>
                        /\ Live(pickups', accepts'[n].sprite)
                        /\ AcceptedInto(n) = accepts'[n].before
              /\ \A id \in DOMAIN ITEM_DB :
                    Held(items', id) + MarkerTotal(pickups', id)
                        <= Held(items, id) + MarkerTotal(pickups, id)]_vars

\* The capture radius 0.75, squared, in sixteenths of a squared world unit.
CaptureRadiusSquared == 3 * 3

\* C6: in every update(), each marker under the capture radius is offered to
\* the inventory exactly once, with its item id and quantity, and leaves the
\* field and the scene iff the call returns true, which it does iff the whole
\* quantity fits at that moment; a marker at or beyond the radius is neither
\* offered nor removed.
C6_CaptureWithinRadius ==
    [][\A playerPos \in PlayerPositions :
          Update(playerPos) =>
              /\ \A i \in 1 .. Len(pickups) :
                    LET p == pickups[i]
                        tried == {n \in 1 .. Len(accepts') :
                                     accepts'[n].sprite = p.sprite}
                    IN  IF PlanarDistanceSquared(p, playerPos) < CaptureRadiusSquared
                        THEN /\ Cardinality(tried) = 1
                             /\ \A n \in tried :
                                   /\ accepts'[n].itemId = p.itemId
                                   /\ accepts'[n].quantity = p.quantity
                                   /\ accepts'[n].ok <=> ~Live(pickups', p.sprite)
                                   /\ accepts'[n].ok <=> p.sprite \notin scene'
                                   /\ accepts'[n].ok <=>
                                        /\ ~p.quantity.nan
                                        /\ p.quantity.v
                                             <= Room(accepts'[n].before, p.itemId)
                        ELSE /\ tried = {}
                             /\ Live(pickups', p.sprite)
                             /\ p.sprite \in scene'
              /\ \A j \in 1 .. Len(pickups') :
                    \E i \in 1 .. Len(pickups) : pickups[i] = pickups'[j]
              /\ Len(accepts') <= Len(pickups)]_vars

\* A frame in which one marker was collected and another, still in the field
\* and the scene, was turned down.
C6_Witness ==
    /\ \E n \in 1 .. Len(accepts) :
          accepts[n].ok /\ ~Live(pickups, accepts[n].sprite)
    /\ \E n \in 1 .. Len(accepts) :
          /\ ~accepts[n].ok
          /\ Live(pickups, accepts[n].sprite)
          /\ accepts[n].sprite \in scene

\* C7: at most one load is ever started per item id; the markers of an id
\* show the placeholder until its load resolves and the loaded icon from then
\* on, whether spawned before or after; after a failed load they keep the
\* placeholder and no other load is started.
C7_OneIconLoadPerItem ==
    \A id \in DOMAIN ITEM_DB :
        /\ loadsStarted[id] <= 1
        /\ loadsStarted[id] = 0 <=> loading[id] = "idle"
        /\ iconTextureCache[id] =
              (CASE loading[id] = "idle" -> "none"
                 [] loading[id] = "loaded" -> "icon"
                 [] OTHER -> "placeholder")
        /\ \A i \in 1 .. Len(pickups) :
              pickups[i].itemId = id =>
                  /\ loadsStarted[id] = 1
                  /\ pickups[i].map =
                        (IF loading[id] = "loaded" THEN "icon" ELSE "placeholder")

\* Two live markers of one item, both showing its loaded icon: the first was
\* spawned while the load it started was under way.
C7_Witness ==
    \E id \in DOMAIN ITEM_DB : \E i, j \in 1 .. Len(pickups) :
        /\ i < j
        /\ loading[id] = "loaded"
        /\ pickups[i].itemId = id /\ pickups[i].map = "icon"
        /\ pickups[j].itemId = id /\ pickups[j].map = "icon"

\* Every live marker names a catalog item and has an integer quantity >= 1.
MarkersValid ==
    \A i \in 1 .. Len(pickups) :
        /\ pickups[i].itemId \in DOMAIN ITEM_DB
        /\ ~pickups[i].quantity.nan
        /\ pickups[i].quantity.v >= 1

\* spawn() of an unknown item id changes neither the field nor the scene,
\* spawn() of a catalog item adds one marker, and clear() leaves none.
SpawnAndClearEffects ==
    [][/\ \A s \in SpawnInputs :
             Spawn(s) =>
                 IF s.itemId \in DOMAIN ITEM_DB
                 THEN /\ getActiveCount(pickups') = getActiveCount(pickups) + 1
                      /\ Cardinality(scene') = Cardinality(scene) + 1
                 ELSE /\ getActiveCount(pickups') = getActiveCount(pickups)
                      /\ pickups' = pickups
                      /\ scene' = scene
       /\ Clear => getActiveCount(pickups') = 0]_vars

\* C8: spawn() of an unknown item id creates nothing, spawn() of a catalog
\* item adds exactly one marker, clear() leaves no marker, and every live
\* marker names a catalog item and has an integer quantity >= 1.
C8_SpawnSkipsUnknownItems == SpawnAndClearEffects /\ []MarkersValid

====
